---- MODULE Spec2Model ----
(***************************************************************************)
(* Valuation core of the asset tracker: the PortfolioDay valuation          *)
(* (models/portfolio.py), the exchange-rate lookup with its module-level    *)
(* cache (services/exchange_rates.py) and the PortfolioManager operations   *)
(* (portfolio_manager.py).                                                  *)
(*                                                                          *)
(* Numbers are exact rationals [n |-> numerator, d |-> denominator], kept   *)
(* in lowest terms with d > 0; Python's None is the record with d = 0.      *)
(* Date strings YYYY-MM-DD are the integers YYYYMMDD, whose numeric order   *)
(* is the lexicographic order of the fixed-width strings.                   *)
(***************************************************************************)
EXTENDS Integers, FiniteSets, Sequences, TLC

VARIABLES portfolio, cache, last_update, now, written, last, nops, file

vars == <<portfolio, cache, last_update, now, written, last, nops, file>>

(***************************************************************************)
(* Rational arithmetic                                                      *)
(***************************************************************************)
Abs(x) == IF x < 0 THEN -x ELSE x

RECURSIVE Gcd(_, _)
Gcd(a, b) == IF b = 0 THEN a ELSE Gcd(b, a % b)

Norm(n, d) ==
    LET g == Gcd(Abs(n), Abs(d))
        s == IF d < 0 THEN -1 ELSE 1
    IN  [n |-> (s * n) \div g, d |-> (s * d) \div g]

R(i) == [n |-> i, d |-> 1]

None == [n |-> 0, d |-> 0]

IsNone(x) == x.d = 0

IsZero(x) == x.d # 0 /\ x.n = 0

RAdd(x, y) == Norm(x.n * y.d + y.n * x.d, x.d * y.d)

RMul(x, y) == Norm(x.n * y.n, x.d * y.d)

\* x / y for y # 0 (Python raises ZeroDivisionError for y = 0; callers test it)
RDiv(x, y) == Norm(x.n * y.d, x.d * y.n)

(***************************************************************************)
(* Closed sets of the data model                                            *)
(***************************************************************************)
Currencies == {"USD", "HKD", "CNY"}

Markets == {"AShares", "USStocks", "HKStocks"}

\* a dict with no keys
EmptyMap == [k \in {} |-> None]

\* dict.get(key, 1) on a rate mapping
GetRate(rates, c) == IF c \in DOMAIN rates THEN rates[c] ELSE R(1)

(***************************************************************************)
(* models/portfolio.py                                                      *)
(***************************************************************************)
\* Stock.market_value
market_value(stock) ==
    IF IsNone(stock.price) THEN None ELSE RMul(stock.quantity, stock.price)

\* sum(values) over the values of a holdings dict
RECURSIVE SumValues(_, _)
SumValues(holdings, codes) ==
    IF codes = {} THEN R(0)
    ELSE LET c == CHOOSE x \in codes : TRUE
         IN  RAdd(market_value(holdings[c]), SumValues(holdings, codes \ {c}))

\* the variant that skips unpriced stocks instead of voiding the market
Mut_total_value_by_market(stocks, market) ==
    LET holdings == stocks[market]
    IN  SumValues(holdings, {c \in DOMAIN holdings : ~IsNone(holdings[c].price)})

\* StockHoldings.total_value_by_market (market is one of the three markets)
total_value_by_market(stocks, market) ==
    LET holdings == stocks[market]
    IN  IF \E c \in DOMAIN holdings : IsNone(market_value(holdings[c]))
        THEN None
        ELSE SumValues(holdings, DOMAIN holdings)

\* StockHoldings.total_value
total_value(stocks) == [m \in Markets |-> total_value_by_market(stocks, m)]

\* Python's "x or 0" on an optional number
OrZero(x) == IF IsNone(x) \/ IsZero(x) THEN R(0) ELSE x

\* the variant that multiplies the CNY balance by its rate
Mut_total_in_currency_USD(cash, rates) ==
    RAdd(RAdd(cash.USD, RDiv(cash.HKD, GetRate(rates, "HKD"))),
         RMul(cash.CNY, GetRate(rates, "CNY")))

\* CashHoldings.total_in_currency, branch currency == "USD"
total_in_currency_USD(cash, rates) ==
    RAdd(RAdd(cash.USD, RDiv(cash.HKD, GetRate(rates, "HKD"))),
         RDiv(cash.CNY, GetRate(rates, "CNY")))

\* the divisions of PortfolioDay.update_total_assets raise ZeroDivisionError
ValuationRaises(rates) ==
    IsZero(GetRate(rates, "CNY")) \/ IsZero(GetRate(rates, "HKD"))

\* the variant that stores each total as soon as it is computed
Mut_TotalsOnRaise(day) == [USD |-> R(0), HKD |-> None, CNY |-> None]

\* what totalAssets holds when update_total_assets raised: every division
\* comes before the first assignment, so the old totals stay
TotalsOnRaise(day) == day.totalAssets

\* a valuation that adds the new totals to the totals already stored
Mut_assign_totals(day, usd_total, rates) ==
    LET onto(old, x) == IF IsNone(old) THEN x ELSE RAdd(old, x)
    IN  [day EXCEPT !.totalAssets =
            [USD |-> onto(day.totalAssets.USD, usd_total),
             HKD |-> onto(day.totalAssets.HKD, RMul(usd_total, GetRate(rates, "HKD"))),
             CNY |-> onto(day.totalAssets.CNY, RMul(usd_total, GetRate(rates, "CNY")))]]

\* lines 124-131 of PortfolioDay.update_total_assets: the conversions of
\* usd_total and the three assignments
assign_totals(day, usd_total, rates) ==
    [day EXCEPT !.totalAssets =
        [USD |-> usd_total,
         HKD |-> RMul(usd_total, GetRate(rates, "HKD")),
         CNY |-> RMul(usd_total, GetRate(rates, "CNY"))]]

\* lines 116-122 of PortfolioDay.update_total_assets: usd_total
usd_total_of(stock_values, cash, rates) ==
    LET usd_stocks == OrZero(stock_values["USStocks"])
        cny_in_usd == RDiv(OrZero(stock_values["AShares"]), GetRate(rates, "CNY"))
        hkd_in_usd == RDiv(OrZero(stock_values["HKStocks"]), GetRate(rates, "HKD"))
    IN  RAdd(RAdd(RAdd(usd_stocks, cny_in_usd), hkd_in_usd),
             total_in_currency_USD(cash, rates))

\* PortfolioDay.update_total_assets: the day after the call
update_total_assets(day, rates) ==
    IF ValuationRaises(rates)
    THEN [day EXCEPT !.totalAssets = TotalsOnRaise(day)]
    ELSE assign_totals(day, usd_total_of(total_value(day.stocks), day.cash, rates), rates)

\* a new day whose totals start at zero
Mut_NewDay ==
    [stocks |-> [m \in Markets |-> EmptyMap],
     cash |-> [c \in Currencies |-> R(0)],
     totalAssets |-> [c \in Currencies |-> R(0)]]

\* PortfolioDay(): zero cash, no totals, no stocks
NewDay ==
    [stocks |-> [m \in Markets |-> EmptyMap],
     cash |-> [c \in Currencies |-> R(0)],
     totalAssets |-> [c \in Currencies |-> None]]

(***************************************************************************)
(* services/exchange_rates.py                                               *)
(***************************************************************************)
\* timedelta(hours=1), in minutes
TTL == 60

\* date_str default of get_exchange_rates, "2025-03-01"
DefaultDate == 20250301

\* target_currencies = None (a list of codes is the set of its elements)
NoTargets == {"None"}

\* the three currencies get_historical_exchange_rates asks for by default
DefaultTargets == {"USD", "CNY", "HKD"}

\* truth value of "if target_currencies"
Truthy(targets) == targets # NoTargets /\ targets # {}

\* {curr: rate for curr, rate in rates.items() if curr in target_currencies}
Filter(rates, targets) ==
    [c \in {k \in DOMAIN rates : k \in targets} |-> rates[c]]

\* the response dictionary: rates_kind says whether the key "rates" is absent,
\* holds a dictionary or holds another JSON value; has_filtered whether the
\* key "filtered_rates" is present
MkData(provider, result, base, rates_kind, rates) ==
    [rates |-> rates, provider |-> provider, result |-> result,
     base |-> base, rates_kind |-> rates_kind,
     has_filtered |-> FALSE, filtered_rates |-> EmptyMap]

\* no dictionary at all (the call raised)
NoData == MkData("none", "none", "none", "absent", EmptyMap)

\* data["filtered_rates"] = filtered_rates
WithFiltered(data, targets) ==
    [data EXCEPT !.has_filtered = TRUE,
                 !.filtered_rates = Filter(data.rates, targets)]

\* a table whose HKD rate is the CNY one
Mut_default_rates ==
    [c \in {"USD", "CNY", "HKD", "EUR", "GBP", "JPY"} |->
        IF c = "USD" THEN R(1) ELSE R(7)]

\* default_rates of _get_default_exchange_rates
default_rates ==
    [c \in {"USD", "CNY", "HKD", "EUR", "GBP", "JPY"} |->
        CASE c = "USD" -> R(1)
          [] c = "CNY" -> R(7)
          [] c = "HKD" -> Norm(78, 10)
          [] c = "EUR" -> Norm(92, 100)
          [] c = "GBP" -> Norm(79, 100)
          [] c = "JPY" -> R(150)]

\* _get_default_exchange_rates
get_default_exchange_rates(base_currency, target_currencies) ==
    LET adjusted_rates ==
            IF base_currency # "USD" /\ base_currency \in DOMAIN default_rates
            THEN [c \in DOMAIN default_rates |->
                    IF c = base_currency THEN R(1)
                    ELSE RDiv(default_rates[c], default_rates[base_currency])]
            ELSE default_rates
        data == MkData("default", "success", base_currency, "dict", adjusted_rates)
    IN  IF Truthy(target_currencies) THEN WithFiltered(data, target_currencies)
        ELSE data

\* the exception the body of the try block raises on a provider response:
\* requests.get raising, response.json() raising, data.get on a JSON value
\* that is no dictionary, rates.items() on a "rates" value that is none
ExcOf(resp) ==
    CASE resp.kind = "ConnectionError" -> "ConnectionError"
      [] resp.kind = "invalid_json" -> "JSONDecodeError"
      [] resp.kind = "list" -> "AttributeError"
      [] resp.kind = "dict" /\ resp.rates_kind = "other" -> "AttributeError"
      [] OTHER -> "none"

\* a handler that only expects network errors
Mut_ExceptCatches(exc) == exc = "ConnectionError"

\* "except Exception" of get_exchange_rates
ExceptCatches(exc) == exc \in {"ConnectionError", "JSONDecodeError", "AttributeError"}

\* a cache test that a write to another key invalidates
Mut_CacheFresh(cch, lu, wr, t, cache_key) ==
    lu >= 0 /\ t - lu < TTL /\ cache_key \in DOMAIN cch /\ wr[cache_key] = lu

\* the cache test of get_exchange_rates at time t
CacheFresh(cch, lu, wr, t, cache_key) ==
    lu >= 0 /\ t - lu < TTL /\ cache_key \in DOMAIN cch

\* what get_exchange_rates returns when the provider failed
Fallback(cch, cache_key, base_currency, target_currencies) ==
    get_default_exchange_rates(base_currency, target_currencies)

\* a failure branch that stores the dictionary it returns in the cache
Mut_after_failure(cch, lu, wr, t, cache_key, data) ==
    [cache |-> [k \in DOMAIN cch \cup {cache_key} |->
                   IF k = cache_key THEN data ELSE cch[k]],
     last_update |-> t,
     written |-> [k \in DOMAIN wr \cup {cache_key} |->
                   IF k = cache_key THEN t ELSE wr[k]]]

\* the module state after a failure branch of get_exchange_rates (lines
\* 82-88): the branch returns the default table and assigns neither
\* _exchange_rate_cache nor _last_update
after_failure(cch, lu, wr, t, cache_key, data) ==
    [cache |-> cch, last_update |-> lu, written |-> wr]

\* get_exchange_rates called at time t with the module state (cch = the
\* cache dictionary, lu = _last_update or -1 for None, wr = the time each
\* entry was stored) and the provider answering resp; the result carries the
\* returned dictionary and the module state after the call
get_exchange_rates(cch, lu, wr, t, date_str, base_currency, target_currencies, resp) ==
    LET cache_key == <<date_str, base_currency>>
        unchanged == [cache |-> cch, last_update |-> lu, written |-> wr]
    IN  IF CacheFresh(cch, lu, wr, t, cache_key)
        THEN LET cached == cch[cache_key]
                 filters == Truthy(target_currencies) /\ cached.rates_kind # "absent"
             IN  IF filters /\ cached.rates_kind = "other"
                 THEN unchanged @@ [data |-> NoData, hit |-> TRUE, called |-> FALSE,
                                    failed |-> FALSE, raised |-> TRUE]
                 ELSE LET data == IF filters THEN WithFiltered(cached, target_currencies)
                                  ELSE cached
                      IN  [cache |-> [cch EXCEPT ![cache_key] = data],
                           last_update |-> lu, written |-> wr,
                           data |-> data, hit |-> TRUE, called |-> FALSE,
                           failed |-> FALSE, raised |-> FALSE]
        ELSE IF ExcOf(resp) # "none"
        THEN IF ExceptCatches(ExcOf(resp))
             THEN after_failure(cch, lu, wr, t, cache_key,
                      Fallback(cch, cache_key, base_currency, target_currencies)) @@
                  [data |-> Fallback(cch, cache_key, base_currency, target_currencies),
                   hit |-> FALSE, called |-> TRUE, failed |-> TRUE, raised |-> FALSE]
             ELSE unchanged @@ [data |-> NoData, hit |-> FALSE, called |-> TRUE,
                                failed |-> TRUE, raised |-> TRUE]
        ELSE IF resp.kind = "status"
        THEN after_failure(cch, lu, wr, t, cache_key,
                 Fallback(cch, cache_key, base_currency, target_currencies)) @@
             [data |-> Fallback(cch, cache_key, base_currency, target_currencies),
              hit |-> FALSE, called |-> TRUE, failed |-> TRUE, raised |-> FALSE]
        ELSE LET json == MkData("api", resp.result, base_currency,
                                resp.rates_kind, resp.rates)
                 data == IF Truthy(target_currencies)
                         THEN WithFiltered(json, target_currencies) ELSE json
             IN  [cache |-> [k \in DOMAIN cch \cup {cache_key} |->
                                IF k = cache_key THEN data ELSE cch[k]],
                  last_update |-> t,
                  written |-> [k \in DOMAIN wr \cup {cache_key} |->
                                IF k = cache_key THEN t ELSE wr[k]],
                  data |-> data, hit |-> FALSE, called |-> TRUE,
                  failed |-> FALSE, raised |-> FALSE]

\* lines 112-130 of get_historical_exchange_rates: the rate dictionary made
\* of the result r of get_exchange_rates
historical_rates(r, base_currency, targets) ==
    IF r.raised THEN r @@ [rates |-> EmptyMap]
    ELSE IF r.data.has_filtered
    THEN r @@ [rates |-> r.data.filtered_rates]
    ELSE IF r.data.rates_kind = "other"
    THEN [r EXCEPT !.raised = TRUE] @@ [rates |-> EmptyMap]
    ELSE r @@ [rates |->
                [c \in {k \in DOMAIN r.data.rates : k \in targets} \cup {base_currency} |->
                    IF c \in DOMAIN r.data.rates /\ c \in targets
                    THEN r.data.rates[c] ELSE R(1)]]

\* get_historical_exchange_rates: the rate dictionary returned (field rates)
\* and the module state after the call
get_historical_exchange_rates(cch, lu, wr, t, date_str, base_currency, target_currencies, resp) ==
    historical_rates(
        get_exchange_rates(cch, lu, wr, t, date_str, base_currency,
                           IF target_currencies = NoTargets THEN DefaultTargets
                           ELSE target_currencies, resp),
        base_currency,
        IF target_currencies = NoTargets THEN DefaultTargets ELSE target_currencies)

(***************************************************************************)
(* Bounded inputs                                                           *)
(***************************************************************************)
\* stock codes per market used by the valuation checks
ValStocks == 2

\* the example holdings of run_example.py, three codes per market
CodePool ==
    [m \in Markets |->
        CASE m = "AShares" -> <<"600519", "510500", "000001">>
          [] m = "USStocks" -> <<"TSLA", "NVDA", "AAPL">>
          [] m = "HKStocks" -> <<"00700", "09988", "00005">>]

\* a quoted price for each code
QuoteOf(code) ==
    CASE code = "600519" -> R(15)
      [] code = "510500" -> Norm(11, 2)
      [] code = "000001" -> R(12)
      [] code = "TSLA" -> R(25)
      [] code = "NVDA" -> Norm(25, 2)
      [] code = "AAPL" -> R(19)
      [] code = "00700" -> R(40)
      [] code = "09988" -> Norm(17, 2)
      [] OTHER -> R(6)

\* Stock(name, code, quantity, cost, price)
MkStock(code, quantity, cost, price) ==
    [price |-> price, quantity |-> quantity, code |-> code, cost |-> cost,
     name |-> code]

\* the holdings dicts made of the first k <= n codes of a market, each stock
\* priced or not
HoldingsOver(m, n) ==
    UNION {{[c \in {CodePool[m][i] : i \in 1..k} |->
                MkStock(c, R(10), R(1), IF p[c] THEN QuoteOf(c) ELSE None)] :
              p \in [{CodePool[m][i] : i \in 1..k} -> BOOLEAN]} : k \in 0..n}

\* cash records: equal balances, and three distinct balances
ValCash ==
    {[USD |-> R(100), HKD |-> R(100), CNY |-> R(100)],
     [USD |-> R(5), HKD |-> R(-39), CNY |-> Norm(7, 2)]}

\* rate maps handed to the valuation: empty, the default table, the HKD rate
\* missing, a zero rate
ValRates ==
    {EmptyMap,
     Filter(default_rates, DefaultTargets),
     [c \in {"USD", "CNY"} |-> IF c = "USD" THEN R(1) ELSE Norm(36, 5)],
     [c \in DefaultTargets |-> IF c = "CNY" THEN R(0) ELSE default_rates[c]]}

NoKey == <<0, "none">>

\* the record of the last call: what was called, with which argument, what
\* it returned
\* no stock passed to the operation
NoStock == MkStock("none", None, None, None)

\* the dictionary get_portfolio_summary returns: error is "none" for a
\* summary and "no data" for {"error": ...}
MkSummary(error, date, cash, stocks, totals) ==
    [stocks |-> stocks, cash |-> cash, totalAssets |-> totals, error |-> error,
     date |-> date]

\* no summary returned by the operation
NoSummary == MkSummary("absent", 0, EmptyMap, EmptyMap, EmptyMap)

NoCall ==
    [rates |-> EmptyMap, stock |-> NoStock, price |-> None, market |-> "none",
     targets |-> NoTargets, data |-> NoData,
     exc |-> "none", hit |-> FALSE, called |-> FALSE, failed |-> FALSE,
     raised |-> FALSE, code |-> "none", date |-> 0, op |-> "none",
     key |-> NoKey, current |-> NoData, fellback |-> FALSE, time |-> 0,
     results |-> EmptyMap, events |-> <<>>, asked |-> <<>>,
     window |-> <<0, 0>>, sources |-> EmptyMap, quoted |-> {},
     range |-> <<0, 0>>, delay |-> 0, currency |-> "none", amount |-> None,
     looked |-> {}, had |-> {}, summary |-> NoSummary, repeat |-> FALSE,
     replaced |-> FALSE]

\* the portfolio file: absent, truncated by open(..., 'w'), or fully written
NoFile == [state |-> "absent", content |-> EmptyMap]

(***************************************************************************)
(* The valuation applied to directly constructed days                       *)
(***************************************************************************)
InitValue ==
    /\ portfolio \in
         {[d \in {DefaultDate} |->
              [stocks |-> [m \in Markets |-> h[m]], cash |-> c,
               totalAssets |-> [x \in Currencies |-> None]]] :
            c \in ValCash,
            h \in [Markets -> UNION {HoldingsOver(m, ValStocks) : m \in Markets}]}
    /\ \A m \in Markets : portfolio[DefaultDate].stocks[m] \in HoldingsOver(m, ValStocks)
    /\ cache = EmptyMap
    /\ last_update = -1
    /\ now = 0
    /\ written = EmptyMap
    /\ last = NoCall
    /\ nops = 0
    /\ file = NoFile

\* day.update_total_assets(exchange_rates)
DayUpdateTotalAssets(d, rates) ==
    /\ d \in DOMAIN portfolio
    /\ portfolio' = [portfolio EXCEPT ![d] = update_total_assets(portfolio[d], rates)]
    /\ last' = [NoCall EXCEPT !.op = "day.update_total_assets", !.date = d,
                              !.rates = rates, !.raised = ValuationRaises(rates)]
    /\ UNCHANGED <<cache, last_update, now, written, nops, file>>

NextValue == \E d \in DOMAIN portfolio, rates \in ValRates : DayUpdateTotalAssets(d, rates)

SpecValue == InitValue /\ [][NextValue]_vars

(***************************************************************************)
(* The exchange-rate lookups called directly                                *)
(***************************************************************************)
\* the clock advances in steps of half an hour, MaxTicks times at most
TickMinutes == 30

MaxTicks == 2

\* dates looked up: the default date and the days after it
NumDates == 2

Dates == {DefaultDate + i : i \in 0..(NumDates - 1)}

\* base currencies looked up
Bases == {"USD", "CNY"}

\* target_currencies arguments
TargetArgs == {NoTargets, {"CNY", "EUR"}}

\* what requests.get(url) and response.json() produce
MkResp(kind, result, rates_kind, rates) ==
    [kind |-> kind, result |-> result, rates_kind |-> rates_kind, rates |-> rates]

RatesA ==
    [c \in {"USD", "CNY", "HKD", "EUR"} |->
        CASE c = "USD" -> R(1)
          [] c = "CNY" -> Norm(36, 5)
          [] c = "HKD" -> Norm(39, 5)
          [] c = "EUR" -> Norm(9, 10)]

RatesB ==
    [c \in {"USD", "CNY", "HKD"} |->
        CASE c = "USD" -> R(1)
          [] c = "CNY" -> Norm(73, 10)
          [] c = "HKD" -> Norm(31, 4)]

RatesZero ==
    [c \in {"USD", "CNY", "HKD"} |->
        CASE c = "USD" -> R(1)
          [] c = "CNY" -> R(0)
          [] c = "HKD" -> Norm(39, 5)]

\* requests.get raises
RespConnErr == MkResp("ConnectionError", "none", "absent", EmptyMap)

\* status code 500
RespStatus == MkResp("status", "none", "absent", EmptyMap)

\* status 200, body is no JSON
RespInvalidJson == MkResp("invalid_json", "none", "absent", EmptyMap)

\* status 200, body is a JSON list
RespList == MkResp("list", "none", "absent", EmptyMap)

\* status 200, {"result": "success", "rates": {...}}
RespA == MkResp("dict", "success", "dict", RatesA)

RespB == MkResp("dict", "success", "dict", RatesB)

\* status 200, {"result": "error", "error-type": ...}: no "rates" key
RespError == MkResp("dict", "error", "absent", EmptyMap)

\* status 200, a rate of 0 in the map
RespZero == MkResp("dict", "success", "dict", RatesZero)

\* status 200, "rates" is null
RespRatesNull == MkResp("dict", "success", "other", EmptyMap)

RateResponses == {RespConnErr, RespStatus, RespA, RespB}

AllResponses ==
    {RespConnErr, RespStatus, RespInvalidJson, RespList, RespA, RespError,
     RespRatesNull}

InitRates ==
    /\ portfolio = EmptyMap
    /\ cache = EmptyMap
    /\ last_update = -1
    /\ now = 0
    /\ written = EmptyMap
    /\ last = NoCall
    /\ nops = 0
    /\ file = NoFile

\* the clock moves on between two calls
Tick ==
    /\ now < MaxTicks * TickMinutes
    /\ now' = now + TickMinutes
    /\ UNCHANGED <<portfolio, cache, last_update, written, last, nops, file>>

\* the answers the provider can give to a lookup: it is only contacted when
\* the cache test fails
Answers(responses, date_str, base_currency) ==
    IF CacheFresh(cache, last_update, written, now, <<date_str, base_currency>>)
    THEN {RespConnErr}
    ELSE responses

\* get_exchange_rates(date_str, base_currency, target_currencies)
GetExchangeRates(date_str, base_currency, target_currencies, resp) ==
    \E r \in {get_exchange_rates(cache, last_update, written, now, date_str,
                                 base_currency, target_currencies, resp)} :
        /\ cache' = r.cache
        /\ last_update' = r.last_update
        /\ written' = r.written
        /\ last' = [NoCall EXCEPT !.op = "get_exchange_rates",
                                  !.date = date_str,
                                  !.key = <<date_str, base_currency>>,
                                  !.hit = r.hit, !.called = r.called,
                                  !.failed = r.failed, !.raised = r.raised,
                                  !.data = r.data, !.time = now,
                                  !.targets = target_currencies,
                                  !.exc = IF r.called THEN ExcOf(resp) ELSE "none"]
        /\ UNCHANGED <<portfolio, now, nops, file>>

\* get_historical_exchange_rates(date_str, base_currency, target_currencies)
GetHistoricalExchangeRates(date_str, base_currency, target_currencies, resp) ==
    \E r \in {get_historical_exchange_rates(cache, last_update, written, now, date_str,
                                            base_currency, target_currencies, resp)} :
        /\ cache' = r.cache
        /\ last_update' = r.last_update
        /\ written' = r.written
        /\ last' = [NoCall EXCEPT !.op = "get_historical_exchange_rates",
                                  !.date = date_str,
                                  !.key = <<date_str, base_currency>>,
                                  !.hit = r.hit, !.called = r.called,
                                  !.failed = r.failed, !.raised = r.raised,
                                  !.data = r.data, !.rates = r.rates,
                                  !.time = now, !.targets = target_currencies,
                                  !.exc = IF r.called THEN ExcOf(resp) ELSE "none"]
        /\ UNCHANGED <<portfolio, now, nops, file>>

\* the keys looked up as time passes: every date with base USD, and the
\* default date with base CNY
RateKeys == {<<d, "USD">> : d \in Dates} \cup {<<DefaultDate, "CNY">>}

\* lookups on several keys as time passes
NextRates ==
    \/ Tick
    \/ \E k \in RateKeys : \E resp \in Answers(RateResponses, k[1], k[2]) :
          GetExchangeRates(k[1], k[2], NoTargets, resp)

SpecRates == InitRates /\ [][NextRates]_vars

\* every kind of provider answer, both entry points
NextLookup ==
    \/ Tick
    \/ \E b \in Bases, t \in TargetArgs :
          \E resp \in Answers(AllResponses, DefaultDate, b) :
              GetExchangeRates(DefaultDate, b, t, resp)
    \/ \E b \in Bases, t \in TargetArgs :
          \E resp \in Answers(AllResponses, DefaultDate, b) :
              GetHistoricalExchangeRates(DefaultDate, b, t, resp)

SpecLookup == InitRates /\ [][NextLookup]_vars

(***************************************************************************)
(* services/stock_prices.py                                                 *)
(***************************************************************************)
\* date_str = None
NoDate == 0

\* what a call of a quote source does for a code: it raises, it returns a
\* table without a row for the code, or a table with rows for it
Outcomes == {"raise", "empty", "rows"}

\* the outcome of each source a lookup may ask: the daily-bar source, the
\* real-time table, and the ETF variants of both
MkSources(hist, spot, etf_hist, etf_spot) ==
    [hist |-> hist, spot |-> spot, etf_hist |-> etf_hist, etf_spot |-> etf_spot]

\* start_date="20240301", end_date="20240302"
HistStart == 20240301

HistEnd == 20240302

HistWindow == <<HistStart, HistEnd>>

\* stock_us_daily(symbol=code) takes no dates: the whole history comes back
WholeHistory == <<0, 99999999>>

\* no daily-bar source was asked
NoWindow == <<0, 0>>

\* the daily bars a source returns for a code, oldest first (closing prices)
BarsOf(code) == <<RAdd(QuoteOf(code), R(1)), RAdd(QuoteOf(code), R(2))>>

\* '"ETF" in code or code.startswith("51") or code.startswith("15")' on the
\* codes of the pool
might_be_ashare_etf(code) == code \in {"510500"}

\* '"ETF" in code' on the codes of the pool
might_be_hk_etf(code) == code \in {"ETF2800"}

\* the result of the body of a lookup: the price returned (None for a
\* return None), the exception that left the body, the sources asked in
\* order and the window the daily-bar source was asked for
MkLookup(price, exc, asked, window) ==
    [price |-> price, exc |-> exc, asked |-> asked, window |-> window]

\* a closing handler written for a missing column only
Mut_LookupCatches(exc) == exc = "KeyError"

\* "except Exception as e: ... return None" that closes every lookup
LookupCatches(exc) == exc # "none"

\* the lookup as its caller sees it: the closing handler turns whatever left
\* the body into return None
closing_handler(body) ==
    IF LookupCatches(body.exc)
    THEN [body EXCEPT !.price = None] @@ [raised |-> FALSE]
    ELSE body @@ [raised |-> body.exc # "none"]

\* the real-time fallback inside "except Exception as inner_e" of the
\* historical branch of get_ashare_price and get_hk_stock_price: the
\* real-time table, then for a code that may be an ETF the ETF daily bars
realtime_fallback(code, src, is_etf) ==
    CASE src.spot = "raise" -> MkLookup(None, "Exception", <<"hist", "spot">>, HistWindow)
      [] src.spot = "rows" ->
            MkLookup(QuoteOf(code), "none", <<"hist", "spot">>, HistWindow)
      [] OTHER ->
            IF ~is_etf
            THEN MkLookup(None, "none", <<"hist", "spot">>, HistWindow)
            ELSE IF src.etf_hist = "rows"
            THEN MkLookup(Head(BarsOf(code)), "none",
                          <<"hist", "spot", "etf_hist">>, HistWindow)
            ELSE MkLookup(None, "none", <<"hist", "spot", "etf_hist">>, HistWindow)

\* the historical branch of get_ashare_price and get_hk_stock_price: the
\* close of the first bar of the fixed window; the real-time fallback runs
\* only when the daily-bar call raised
historical_price(code, src, is_etf) ==
    CASE src.hist = "rows" ->
            MkLookup(Head(BarsOf(code)), "none", <<"hist">>, HistWindow)
      [] src.hist = "empty" -> MkLookup(None, "none", <<"hist">>, HistWindow)
      [] OTHER -> realtime_fallback(code, src, is_etf)

\* the branch "date_str is None" of get_ashare_price and get_hk_stock_price:
\* the real-time table, then for a code that may be an ETF the ETF table
\* inside its own try
current_price(code, src, is_etf) ==
    CASE src.spot = "raise" -> MkLookup(None, "Exception", <<"spot">>, NoWindow)
      [] src.spot = "rows" -> MkLookup(QuoteOf(code), "none", <<"spot">>, NoWindow)
      [] OTHER ->
            IF ~is_etf
            THEN MkLookup(None, "none", <<"spot">>, NoWindow)
            ELSE IF src.etf_spot = "rows"
            THEN MkLookup(QuoteOf(code), "none", <<"spot", "etf_spot">>, NoWindow)
            ELSE MkLookup(None, "none", <<"spot", "etf_spot">>, NoWindow)

\* get_ashare_price(code, date_str)
get_ashare_price(code, date_str, src) ==
    closing_handler(
        IF date_str = NoDate THEN current_price(code, src, might_be_ashare_etf(code))
        ELSE historical_price(code, src, might_be_ashare_etf(code)))

\* get_hk_stock_price(code, date_str)
get_hk_stock_price(code, date_str, src) ==
    closing_handler(
        IF date_str = NoDate THEN current_price(code, src, might_be_hk_etf(code))
        ELSE historical_price(code, src, might_be_hk_etf(code)))

\* get_us_stock_price(code, date_str): every source call sits in a try of
\* its own; the daily bars are asked without dates, the real-time table is
\* the fallback only when that call raised
get_us_stock_price(code, date_str, src) ==
    closing_handler(
        IF date_str = NoDate
        THEN IF src.spot = "rows"
             THEN MkLookup(QuoteOf(code), "none", <<"spot">>, NoWindow)
             ELSE MkLookup(None, "none", <<"spot">>, NoWindow)
        ELSE CASE src.hist = "rows" ->
                    MkLookup(Head(BarsOf(code)), "none", <<"hist">>, WholeHistory)
               [] src.hist = "empty" -> MkLookup(None, "none", <<"hist">>, WholeHistory)
               [] OTHER ->
                    IF src.spot = "rows"
                    THEN MkLookup(QuoteOf(code), "none", <<"hist", "spot">>, WholeHistory)
                    ELSE MkLookup(None, "none", <<"hist", "spot">>, WholeHistory))

\* the if/elif chain of update_stock_prices: the lookup of the market
get_price(market, code, date_str, src) ==
    CASE market = "AShares" -> get_ashare_price(code, date_str, src)
      [] market = "USStocks" -> get_us_stock_price(code, date_str, src)
      [] OTHER -> get_hk_stock_price(code, date_str, src)

\* every source of a lookup answers / every source raises
SourcesUp == MkSources("rows", "rows", "rows", "rows")

SourcesDown == MkSources("raise", "raise", "raise", "raise")

\* the sources behind the lookups of the stocks held: those of the pairs in
\* quoted answer, the others raise
SourcesFor(held, quoted) ==
    [hc \in held |-> IF hc \in quoted THEN SourcesUp ELSE SourcesDown]

\* a loop in which a lookup that found nothing resets the prices of the list
Mut_set_price(stocks, code, r) ==
    IF IsNone(r.price)
    THEN [c \in DOMAIN stocks |-> [stocks[c] EXCEPT !.price = None]]
    ELSE [stocks EXCEPT ![code].price = r.price]

\* "stock.price = get_..._price(stock.code, date_str)"
set_price(stocks, code, r) == [stocks EXCEPT ![code].price = r.price]

\* the for loop of update_stock_prices over the stocks still to do (the list
\* is the values of a holdings dictionary; todo are their codes): a lookup
\* that raises ends the loop, the exception leaves the function
RECURSIVE price_loop(_, _, _, _, _)

\* a loop step that keeps the old price when the lookup found nothing
Mut_next_stock(stocks, todo, code, market, date_str, srcs, r) ==
    IF r.raised THEN [stocks |-> stocks, raised |-> TRUE]
    ELSE price_loop(IF IsNone(r.price) THEN stocks ELSE set_price(stocks, code, r),
                    todo \ {code}, market, date_str, srcs)

\* one iteration of the loop, then the rest of it
next_stock(stocks, todo, code, market, date_str, srcs, r) ==
    IF r.raised THEN [stocks |-> stocks, raised |-> TRUE]
    ELSE price_loop(set_price(stocks, code, r), todo \ {code}, market, date_str, srcs)

price_loop(stocks, todo, market, date_str, srcs) ==
    IF todo = {} THEN [stocks |-> stocks, raised |-> FALSE]
    ELSE LET code == CHOOSE c \in todo : TRUE
         IN  next_stock(stocks, todo, code, market, date_str, srcs,
                        get_price(market, code, date_str, srcs[<<market, code>>]))

\* update_stock_prices(stocks, market, date_str): an unknown market only
\* logs a warning for every stock
update_stock_prices(stocks, market, date_str, srcs) ==
    IF market \in Markets
    THEN price_loop(stocks, DOMAIN stocks, market, date_str, srcs)
    ELSE [stocks |-> stocks, raised |-> FALSE]

(***************************************************************************)
(* The price lookups called directly                                        *)
(***************************************************************************)
\* the codes looked up in each market: an ordinary stock, and where the
\* lookup has an ETF branch a code that takes it
PriceCodes ==
    [m \in Markets |->
        CASE m = "AShares" -> {"600519", "510500"}
          [] m = "USStocks" -> {"TSLA"}
          [] m = "HKStocks" -> {"00700", "ETF2800"}]

\* the outcomes of the four sources of one lookup
SourceInputs ==
    {MkSources(h, s, eh, es) : h \in Outcomes, s \in Outcomes,
                               eh \in Outcomes, es \in Outcomes}

\* get_ashare_price / get_us_stock_price / get_hk_stock_price(code, date_str)
GetPrice(market, code, date_str, src) ==
    \E r \in {get_price(market, code, date_str, src)} :
        /\ last' = [NoCall EXCEPT !.op = "get_price", !.date = date_str,
                                  !.market = market, !.code = code,
                                  !.sources = src, !.price = r.price,
                                  !.exc = r.exc, !.raised = r.raised,
                                  !.asked = r.asked, !.window = r.window]
        /\ UNCHANGED <<portfolio, cache, last_update, now, written, nops, file>>

NextPrices ==
    \E m \in Markets, d \in Dates \cup {NoDate}, src \in SourceInputs :
        \E c \in PriceCodes[m] : GetPrice(m, c, d, src)

SpecPrices == InitRates /\ [][NextPrices]_vars

(***************************************************************************)
(* portfolio_manager.py                                                     *)
(***************************************************************************)
\* manager operations in one run
MaxOps == 2

\* Portfolio.latest_day: the largest date, NoDate when there is no day
latest_day(pf) ==
    IF DOMAIN pf = {} THEN NoDate
    ELSE CHOOSE d \in DOMAIN pf : \A e \in DOMAIN pf : e <= d

\* PortfolioManager.get_portfolio_day: the date of the day found, NoDate
\* when it returns None
get_portfolio_day(pf, date_str) ==
    IF date_str = NoDate THEN latest_day(pf)
    ELSE IF date_str \in DOMAIN pf THEN date_str
    ELSE NoDate

\* a create that installs a fresh day whether or not the date has one
Mut_create_portfolio_day(pf, date_str) ==
    [d \in DOMAIN pf \cup {date_str} |-> IF d = date_str THEN NewDay ELSE pf[d]]

\* PortfolioManager.create_portfolio_day: the portfolio after the call
create_portfolio_day(pf, date_str) ==
    IF date_str \in DOMAIN pf THEN pf
    ELSE [d \in DOMAIN pf \cup {date_str} |->
            IF d = date_str THEN NewDay ELSE pf[d]]

\* "day = get_portfolio_day(date_str); if not day: day = create_portfolio_day"
get_or_create(pf, date_str) ==
    IF get_portfolio_day(pf, date_str) = NoDate
    THEN create_portfolio_day(pf, date_str)
    ELSE pf

\* the keys of the dictionary get_exchange_rates returns
DataKeys(data) ==
    {"result", "provider", "base", "time_last_update_utc"}
        \cup (IF data.rates_kind = "absent" THEN {} ELSE {"rates"})
        \cup (IF data.has_filtered THEN {"filtered_rates"} ELSE {})

\* the currency entries exchange_rates.get(currency, 1) finds when the whole
\* response dictionary is passed as exchange_rates: its keys are the
\* envelope keys, the rates sit one level below
EnvelopeView(data) ==
    [c \in DataKeys(data) \cap {"USD", "CNY", "HKD"} |-> R(1)]

\* line 151 of PortfolioManager.update_total_assets: the day d of pf valued
\* with the mapping arg; r is the result of the last rate lookup
value_day(pf, d, arg, r, current, fellback, called) ==
    [portfolio |-> [pf EXCEPT ![d] = update_total_assets(pf[d], arg)],
     cache |-> r.cache, last_update |-> r.last_update, written |-> r.written,
     date |-> d, raised |-> ValuationRaises(arg), rates |-> arg,
     current |-> current, fellback |-> fellback, called |-> called]

\* line 148: the current-rate lookup r made after an empty historical one
value_with_current(pf, d, r, called) ==
    value_day(pf, d, EnvelopeView(r.data), r, r.data, TRUE, called \/ r.called)

\* lines 143-148: h is the result of the historical lookup
value_with_historical(pf, d, h, t, resp2) ==
    IF h.rates # EmptyMap
    THEN value_day(pf, d, h.rates, h, NoData, FALSE, h.called)
    ELSE value_with_current(pf, d,
            get_exchange_rates(h.cache, h.last_update, h.written, t,
                               DefaultDate, "USD", NoTargets, resp2),
            h.called)

\* line 141: r is the result of get_exchange_rates()
value_latest(pf, d, r) ==
    value_day(pf, d, EnvelopeView(r.data), r, r.data, FALSE, r.called)

\* PortfolioManager.get_portfolio_summary: the dictionary returned; "date"
\* is date_str, or "latest" (NoDate here) when none was given
get_portfolio_summary(pf, date_str) ==
    LET d == get_portfolio_day(pf, date_str)
    IN  IF d = NoDate
        THEN MkSummary("no data", NoDate, EmptyMap, EmptyMap, EmptyMap)
        ELSE LET day == pf[d]
                 stock_values == total_value(day.stocks)
             IN  MkSummary("none", date_str, day.cash,
                           [m \in Markets |->
                               [count |-> Cardinality(DOMAIN day.stocks[m]),
                                value |-> stock_values[m]]],
                           day.totalAssets)

\* a valuation that creates a day for today when the portfolio has none
Mut_no_latest_day(pf, cch, lu, wr) ==
    [portfolio |-> create_portfolio_day(pf, DefaultDate), cache |-> cch,
     last_update |-> lu, written |-> wr,
     date |-> NoDate, raised |-> FALSE, rates |-> EmptyMap,
     current |-> NoData, fellback |-> FALSE, called |-> FALSE]

\* lines 133-136 of update_total_assets: no date given and no day held, the
\* method logs a warning and returns
no_latest_day(pf, cch, lu, wr) ==
    [portfolio |-> pf, cache |-> cch, last_update |-> lu, written |-> wr,
     date |-> NoDate, raised |-> FALSE, rates |-> EmptyMap,
     current |-> NoData, fellback |-> FALSE, called |-> FALSE]

\* PortfolioManager.update_total_assets on portfolio pf and module state
\* (cch, lu, wr) at time t; resp1 answers the first lookup, resp2 the
\* current-rate lookup made when the historical one returned no rates
mgr_update_total_assets(pf, cch, lu, wr, t, date_str, resp1, resp2) ==
    IF date_str = NoDate
    THEN IF latest_day(pf) = NoDate
         THEN no_latest_day(pf, cch, lu, wr)
         ELSE value_latest(pf, latest_day(pf),
                  get_exchange_rates(cch, lu, wr, t, DefaultDate, "USD", NoTargets, resp1))
    ELSE value_with_historical(get_or_create(pf, date_str), date_str,
             get_historical_exchange_rates(cch, lu, wr, t, date_str, "USD",
                                           NoTargets, resp1),
             t, resp2)

\* lines 121-123 of PortfolioManager.update_stock_prices: the three calls
\* of update_stock_prices in turn; a call that raises ends the method
refresh_prices(day, date_str, srcs) ==
    LET a == update_stock_prices(day.stocks["AShares"], "AShares", date_str, srcs)
        u == IF a.raised THEN [stocks |-> day.stocks["USStocks"], raised |-> TRUE]
             ELSE update_stock_prices(day.stocks["USStocks"], "USStocks", date_str, srcs)
        h == IF u.raised THEN [stocks |-> day.stocks["HKStocks"], raised |-> TRUE]
             ELSE update_stock_prices(day.stocks["HKStocks"], "HKStocks", date_str, srcs)
    IN  [day |-> [day EXCEPT !.stocks =
                    [m \in Markets |->
                        CASE m = "AShares" -> a.stocks
                          [] m = "USStocks" -> u.stocks
                          [] OTHER -> h.stocks]],
         raised |-> h.raised]

\* the <<market, code>> pairs held on a day
Held(day) == {<<m, c>> : m \in Markets, c \in UNION {DOMAIN day.stocks[x] : x \in Markets}}
                \cap UNION {{<<m, c>> : c \in DOMAIN day.stocks[m]} : m \in Markets}

\* PortfolioManager.update_stock_prices: the portfolio after the call,
\* whether the call raised and the stocks whose price it looked up
mgr_update_stock_prices(pf, date_str, srcs) ==
    IF get_portfolio_day(pf, date_str) = NoDate /\ date_str = NoDate
    THEN [portfolio |-> pf, raised |-> FALSE, looked |-> {}]
    ELSE LET pf1 == get_or_create(pf, date_str)
             d == get_portfolio_day(pf1, date_str)
             r == refresh_prices(pf1[d], date_str, srcs)
         IN  [portfolio |-> [pf1 EXCEPT ![d] = r.day], raised |-> r.raised,
              looked |-> Held(pf1[d])]

\* portfolio_to_dict reads day.exchangeRates of every day, an attribute
\* PortfolioDay does not have: it raises AttributeError on the first day
portfolio_to_dict_raises(pf) == DOMAIN pf # {}

\* save_portfolio: open(file_path, 'w') truncates the file, then json.dump
\* receives portfolio_to_dict(portfolio)
save_portfolio(pf) ==
    IF portfolio_to_dict_raises(pf)
    THEN [state |-> "truncated", content |-> EmptyMap]
    ELSE [state |-> "written", content |-> pf]

\* a selection that ignores start_date and end_date
Mut_dates_to_update(pf, start_date, end_date) == DOMAIN pf

\* the dates update_all_dates selects
dates_to_update(pf, start_date, end_date) ==
    {d \in DOMAIN pf : /\ ~(start_date # NoDate /\ d < start_date)
                       /\ ~(end_date # NoDate /\ d > end_date)}

\* time.sleep(delay_seconds) on a clock counted in minutes
Slept(t, delay_seconds) == t + (delay_seconds \div 60)

\* the loop of update_all_dates over the dates still to do, in ascending
\* order; st holds the portfolio, the rate-module state, the clock, the
\* results and the trace of steps; inp[d] says which price lookups of date d
\* succeed and what the provider answers
RECURSIVE batch_loop(_, _, _, _)

\* a handler that marks every date done so far as failed
Mut_record_result(results, d, ok) ==
    [x \in DOMAIN results \cup {d} |-> IF ok THEN (IF x = d THEN TRUE ELSE results[x])
                                       ELSE FALSE]

\* "results[date_str] = True" at the end of the try block, "results[date_str]
\* = False" in the handler
record_result(results, d, ok) ==
    [x \in DOMAIN results \cup {d} |-> IF x = d THEN ok ELSE results[x]]

\* the state after date d: v is the result of its valuation at time t1
after_date(st, d, pauses, t1, v) ==
    [portfolio |-> v.portfolio, cache |-> v.cache,
     last_update |-> v.last_update, written |-> v.written, now |-> t1,
     results |-> record_result(st.results, d, ~v.raised),
     events |-> st.events \o <<<<"prices", d>>>>
                 \o (IF pauses THEN <<<<"sleep", d>>>> ELSE <<>>)
                 \o <<<<"valuation", d>>>>
                 \o (IF v.raised THEN <<<<"error", d>>>> ELSE <<>>)
                 \o <<<<"result", d>>>>]

\* the state after a date d whose price refresh raised: the handler records
\* False, neither the pause nor the valuation ran
failed_refresh(st, d, pf) ==
    [portfolio |-> pf, cache |-> st.cache,
     last_update |-> st.last_update, written |-> st.written, now |-> st.now,
     results |-> record_result(st.results, d, FALSE),
     events |-> st.events \o <<<<"prices", d>>, <<"error", d>>, <<"result", d>>>>]

\* line 240: the price refresh of date d; inp[d].quoted says whether the
\* sources answer
refresh_of(st, d, inp) ==
    mgr_update_stock_prices(st.portfolio, d,
        SourcesFor(Held(st.portfolio[d]),
                   IF inp[d].quoted THEN Held(st.portfolio[d]) ELSE {}))

\* one iteration: prices, pause unless d is the last date, valuation
one_date(st, d, pauses, t1, delay_seconds, inp) ==
    LET p == refresh_of(st, d, inp)
    IN  IF p.raised THEN failed_refresh(st, d, p.portfolio)
        ELSE after_date(st, d, pauses, t1,
                mgr_update_total_assets(p.portfolio, st.cache, st.last_update,
                    st.written, t1, d, inp[d].resp1, inp[d].resp2))

\* a loop that pauses after every date, the last one included
Mut_pauses_after(todo, d, delay_seconds) == delay_seconds > 0

\* "if i < len(dates_to_update) - 1 and delay_seconds > 0": d is not the
\* last of the dates still to do
pauses_after(todo, d, delay_seconds) == todo # {d} /\ delay_seconds > 0

next_date(st, todo, d, delay_seconds, inp) ==
    batch_loop(one_date(st, d, pauses_after(todo, d, delay_seconds),
                        IF pauses_after(todo, d, delay_seconds)
                        THEN Slept(st.now, delay_seconds) ELSE st.now,
                        delay_seconds, inp),
               todo \ {d}, delay_seconds, inp)

batch_loop(st, todo, delay_seconds, inp) ==
    IF todo = {} THEN st
    ELSE next_date(st, todo, CHOOSE x \in todo : \A y \in todo : x <= y,
                   delay_seconds, inp)

\* the save that ends update_all_dates
batch_end(st) ==
    [st EXCEPT !.events = st.events \o <<<<"save", NoDate>>>>]
        @@ [raised |-> portfolio_to_dict_raises(st.portfolio), saved |-> TRUE]

\* PortfolioManager.update_all_dates: the state after the call; raised says
\* that the final save raised
update_all_dates(pf, cch, lu, wr, t, start_date, end_date, delay_seconds, inp) ==
    IF DOMAIN pf = {}
    THEN [portfolio |-> pf, cache |-> cch, last_update |-> lu, written |-> wr,
          now |-> t, results |-> EmptyMap, events |-> <<>>,
          raised |-> FALSE, saved |-> FALSE]
    ELSE batch_end(batch_loop(
            [portfolio |-> pf, cache |-> cch, last_update |-> lu, written |-> wr,
             now |-> t, results |-> EmptyMap, events |-> <<>>],
            dates_to_update(pf, start_date, end_date), delay_seconds, inp))

(***************************************************************************)
(* The manager driven from an empty portfolio                               *)
(***************************************************************************)
\* the dates the manager is called with: the default date of the rate
\* lookup and the day after
MgrDates == {DefaultDate, DefaultDate + 1}

\* cash updates tried: two supported currencies and an unsupported one
CashInputs == {<<"CNY", R(70)>>, <<"USD", R(5)>>, <<"EUR", R(1)>>}

\* markets of the stocks added: a known one and an unknown one
MarketInputs == {"HKStocks", "Futures"}

\* provider answers during valuation
MgrResponses == {RespConnErr, RespA, RespError, RespZero}

Init ==
    /\ portfolio = EmptyMap
    /\ cache = EmptyMap
    /\ last_update = -1
    /\ now = 0
    /\ written = EmptyMap
    /\ last = NoCall
    /\ nops = 0
    /\ file = NoFile

\* manager.create_portfolio_day(date_str)
CreatePortfolioDay(date_str) ==
    /\ nops < MaxOps
    /\ nops' = nops + 1
    /\ portfolio' = create_portfolio_day(portfolio, date_str)
    /\ last' = [NoCall EXCEPT !.op = "create_portfolio_day", !.date = date_str]
    /\ UNCHANGED <<cache, last_update, now, written, file>>

\* a cash update that adds the amount to the balance
Mut_set_cash(day, currency, amount) ==
    [day EXCEPT !.cash[currency] = RAdd(@, amount)]

\* update_cash, the assignment of the branch taken for a supported currency
set_cash(day, currency, amount) ==
    [day EXCEPT !.cash[currency] = amount]

\* an update_cash that clears the balances before it raises
Mut_cash_on_raise(day) ==
    [day EXCEPT !.cash = [c \in Currencies |-> R(0)]]

\* update_cash, the final else: the day is raised on as it is
cash_on_raise(day) == day

\* manager.update_cash(date_str, currency, amount)
UpdateCash(date_str, currency, amount) ==
    /\ nops < MaxOps
    /\ nops' = nops + 1
    /\ LET pf1 == get_or_create(portfolio, date_str)
       IN  IF currency \in Currencies
           THEN /\ portfolio' = [pf1 EXCEPT ![date_str] =
                                     set_cash(@, currency, amount)]
                /\ last' = [NoCall EXCEPT !.op = "update_cash", !.date = date_str,
                                          !.currency = currency, !.amount = amount]
           ELSE /\ portfolio' = [pf1 EXCEPT ![date_str] = cash_on_raise(@)]
                /\ last' = [NoCall EXCEPT !.op = "update_cash", !.date = date_str,
                                          !.raised = TRUE, !.exc = "ValueError",
                                          !.currency = currency, !.amount = amount]
    /\ UNCHANGED <<cache, last_update, now, written, file>>

\* an upsert that merges the quantity into the record already held
Mut_put_stock(holdings, stock) ==
    [c \in DOMAIN holdings \cup {stock.code} |->
        IF c # stock.code THEN holdings[c]
        ELSE IF c \in DOMAIN holdings
             THEN [stock EXCEPT !.quantity = RAdd(holdings[c].quantity, @)]
             ELSE stock]

\* add_stock, day.stocks.<market>[stock.code] = stock
put_stock(holdings, stock) ==
    [c \in DOMAIN holdings \cup {stock.code} |->
        IF c = stock.code THEN stock ELSE holdings[c]]

\* manager.add_stock(date_str, market, stock)
AddStock(date_str, market, stock) ==
    /\ nops < MaxOps
    /\ nops' = nops + 1
    /\ LET pf1 == get_or_create(portfolio, date_str)
           held == pf1[date_str].stocks
       IN  IF market \in Markets
           THEN /\ portfolio' =
                     [pf1 EXCEPT ![date_str].stocks[market] = put_stock(@, stock)]
                /\ last' = [NoCall EXCEPT !.op = "add_stock", !.date = date_str,
                                          !.market = market, !.stock = stock,
                                          !.replaced =
                                              stock.code \in DOMAIN held[market]]
           ELSE /\ portfolio' = pf1
                /\ last' = [NoCall EXCEPT !.op = "add_stock", !.date = date_str,
                                          !.market = market, !.stock = stock,
                                          !.raised = TRUE, !.exc = "ValueError"]
    /\ UNCHANGED <<cache, last_update, now, written, file>>

\* the stocks whose price the refresh of date_str looks up
Refreshed(pf, date_str) ==
    LET pf1 == get_or_create(pf, date_str)
        d == get_portfolio_day(pf1, date_str)
    IN  IF d = NoDate THEN {} ELSE Held(pf1[d])

\* manager.update_stock_prices(date_str)
UpdateStockPrices(date_str, quoted) ==
    /\ nops < MaxOps
    /\ nops' = nops + 1
    /\ \E r \in {mgr_update_stock_prices(portfolio, date_str,
                    SourcesFor(Refreshed(portfolio, date_str), quoted))} :
          /\ portfolio' = r.portfolio
          /\ last' = [NoCall EXCEPT !.op = "update_stock_prices",
                                    !.date = get_portfolio_day(r.portfolio, date_str),
                                    !.key = <<date_str, "none">>,
                                    !.raised = r.raised,
                                    !.quoted = quoted, !.looked = r.looked,
                                    !.had =
                                        LET d == get_portfolio_day(portfolio, date_str)
                                        IN  IF d = NoDate THEN {}
                                            ELSE {hc \in Held(portfolio[d]) :
                                                    ~IsNone(portfolio[d].stocks[hc[1]][hc[2]].price)}]
    /\ UNCHANGED <<cache, last_update, now, written, file>>

\* manager.update_total_assets(date_str)
UpdateTotalAssets(date_str, resp1, resp2) ==
    /\ nops < MaxOps
    /\ nops' = nops + 1
    /\ \E r \in {mgr_update_total_assets(portfolio, cache, last_update, written, now,
                                         date_str, resp1, resp2)} :
          /\ r.fellback \/ resp2 = RespConnErr
          /\ r.called \/ resp1 = RespConnErr
          /\ portfolio' = r.portfolio
          /\ cache' = r.cache
          /\ last_update' = r.last_update
          /\ written' = r.written
          /\ last' = [NoCall EXCEPT !.op = "update_total_assets", !.date = r.date,
                                    !.key = <<date_str, "USD">>,
                                    !.called = r.called, !.raised = r.raised,
                                    !.rates = r.rates, !.current = r.current,
                                    !.fellback = r.fellback, !.time = now,
                                    !.exc = IF r.raised THEN "ZeroDivisionError" ELSE "none",
                                    !.repeat = /\ last.op = "update_total_assets"
                                               /\ last.key = <<date_str, "USD">>
                                               /\ last.date = r.date
                                               /\ last.rates = r.rates
                                               /\ ~last.raised
                                               /\ ~r.raised]
    /\ UNCHANGED <<now, file>>

\* manager.get_portfolio_summary(date_str)
GetPortfolioSummary(date_str) ==
    /\ nops < MaxOps
    /\ nops' = nops + 1
    /\ last' = [NoCall EXCEPT !.op = "get_portfolio_summary",
                              !.date = get_portfolio_day(portfolio, date_str),
                              !.key = <<date_str, "none">>,
                              !.summary = get_portfolio_summary(portfolio, date_str)]
    /\ UNCHANGED <<portfolio, cache, last_update, now, written, file>>

\* manager.update_all_dates(start_date, end_date, delay_seconds)
UpdateAllDates(start_date, end_date, delay_seconds, inp) ==
    /\ nops < MaxOps
    /\ nops' = nops + 1
    /\ \E r \in {update_all_dates(portfolio, cache, last_update, written, now,
                                  start_date, end_date, delay_seconds, inp)} :
          /\ portfolio' = r.portfolio
          /\ cache' = r.cache
          /\ last_update' = r.last_update
          /\ written' = r.written
          /\ now' = r.now
          /\ file' = IF r.saved THEN save_portfolio(r.portfolio) ELSE file
          /\ last' = [NoCall EXCEPT !.op = "update_all_dates", !.raised = r.raised,
                                    !.range = <<start_date, end_date>>,
                                    !.delay = delay_seconds,
                                    !.results = r.results, !.events = r.events,
                                    !.time = now,
                                    !.exc = IF r.raised THEN "AttributeError" ELSE "none"]

\* date ranges, pauses and per-date outcomes of a batch
RangeInputs == {<<NoDate, NoDate>>, <<DefaultDate + 1, NoDate>>}

DelayInputs == {0, 1}

BatchOutcomes == {[quoted |-> TRUE, resp1 |-> RespA, resp2 |-> RespA],
                  [quoted |-> FALSE, resp1 |-> RespZero, resp2 |-> RespA]}

Next ==
    \/ Tick
    \/ \E rg \in RangeInputs, delay \in DelayInputs :
          \E inp \in [dates_to_update(portfolio, rg[1], rg[2]) -> BatchOutcomes] :
              UpdateAllDates(rg[1], rg[2], delay, inp)
    \/ \E d \in MgrDates : CreatePortfolioDay(d)
    \/ \E d \in MgrDates, ca \in CashInputs : UpdateCash(d, ca[1], ca[2])
    \/ \E d \in MgrDates, m \in MarketInputs :
          AddStock(d, m, MkStock(CodePool[IF m \in Markets THEN m ELSE "AShares"][1],
                                 R(10), R(1), None))
    \/ \E d \in MgrDates \cup {NoDate} : \E quoted \in SUBSET Refreshed(portfolio, d) :
          UpdateStockPrices(d, quoted)
    \/ \E d \in MgrDates \cup {NoDate}, resp1 \in MgrResponses, resp2 \in MgrResponses :
          UpdateTotalAssets(d, resp1, resp2)
    \/ \E d \in MgrDates \cup {NoDate} : GetPortfolioSummary(d)

Spec == Init /\ [][Next]_vars

(***************************************************************************)
(* Stocks added and added again                                             *)
(***************************************************************************)
\* the stocks passed to add_stock: two codes, each with two sets of fields
StockInputs ==
    {MkStock(c, R(10), R(1), None) : c \in {"00700", "09988"}} \cup
    {MkStock(c, R(20), R(2), R(3)) : c \in {"00700", "09988"}}

\* the markets passed to add_stock: two known ones and an unknown one
HoldingMarkets == {"AShares", "HKStocks", "Futures"}

NextHoldings ==
    \E d \in MgrDates, m \in HoldingMarkets, stock \in StockInputs :
        AddStock(d, m, stock)

SpecHoldings == Init /\ [][NextHoldings]_vars

(***************************************************************************)
(* A day valued and valued again                                            *)
(***************************************************************************)
\* a day with cash in two currencies and a priced Hong Kong stock
RevalueDay ==
    [NewDay EXCEPT !.cash.USD = R(5), !.cash.CNY = R(70),
                   !.stocks["HKStocks"] =
                       [c \in {"00700"} |-> MkStock(c, R(10), R(1), R(39))]]

InitRevalue ==
    /\ portfolio = [d \in {DefaultDate} |-> RevalueDay]
    /\ cache = EmptyMap
    /\ last_update = -1
    /\ now = 0
    /\ written = EmptyMap
    /\ last = NoCall
    /\ nops = 0
    /\ file = NoFile

NextRevalue ==
    \/ Tick
    \/ \E d \in {DefaultDate, NoDate}, resp1 \in MgrResponses, resp2 \in MgrResponses :
          UpdateTotalAssets(d, resp1, resp2)

SpecRevalue == InitRevalue /\ [][NextRevalue]_vars

(***************************************************************************)
(* The price refresh of a day that holds several stocks                     *)
(***************************************************************************)
\* the codes held per market: two A-shares, one US stock, one HK stock
RefreshCodes ==
    [m \in Markets |->
        CASE m = "AShares" -> {"600519", "510500"}
          [] m = "USStocks" -> {"TSLA"}
          [] m = "HKStocks" -> {"00700"}]

\* the day after add_stock for each of them: no price yet
RefreshDay ==
    [NewDay EXCEPT !.stocks =
        [m \in Markets |->
            [c \in RefreshCodes[m] |-> MkStock(c, R(10), R(1), None)]]]

InitRefresh ==
    /\ portfolio = [d \in {DefaultDate} |-> RefreshDay]
    /\ cache = EmptyMap
    /\ last_update = -1
    /\ now = 0
    /\ written = EmptyMap
    /\ last = NoCall
    /\ nops = 0
    /\ file = NoFile

NextRefresh ==
    \E d \in MgrDates \cup {NoDate} : \E quoted \in SUBSET Refreshed(portfolio, d) :
        UpdateStockPrices(d, quoted)

SpecRefresh == InitRefresh /\ [][NextRefresh]_vars

(***************************************************************************)
(* The batch update of a portfolio that holds several days                  *)
(***************************************************************************)
\* calls of update_all_dates in one run
MaxBatches == 2

\* the dates of the days the portfolio may hold
BatchDates == {DefaultDate, DefaultDate + 1, DefaultDate + 2}

\* a day with cash and unpriced stocks
BatchDay == [RefreshDay EXCEPT !.cash.USD = R(5)]

\* start_date, end_date arguments: no bound, one bound, both bounds
BatchRanges ==
    {<<NoDate, NoDate>>, <<DefaultDate + 1, NoDate>>, <<NoDate, DefaultDate + 1>>,
     <<DefaultDate + 1, DefaultDate + 1>>}

\* the portfolio loaded from the file: any of the days, none included
InitBatch ==
    /\ portfolio \in {[d \in D |-> BatchDay] : D \in SUBSET BatchDates}
    /\ cache = EmptyMap
    /\ last_update = -1
    /\ now = 0
    /\ written = EmptyMap
    /\ last = NoCall
    /\ nops = 0
    /\ file = NoFile

NextBatch ==
    \E rg \in BatchRanges, delay \in DelayInputs :
        \E inp \in [dates_to_update(portfolio, rg[1], rg[2]) -> BatchOutcomes] :
            /\ nops < MaxBatches
            /\ UpdateAllDates(rg[1], rg[2], delay, inp)

SpecBatch == InitBatch /\ [][NextBatch]_vars

(***************************************************************************)
(* Properties of the valuation                                              *)
(***************************************************************************)
\* sum of quantity x price over the given stocks of a holdings dict
RECURSIVE SumQtyPrice(_, _)
SumQtyPrice(holdings, codes) ==
    IF codes = {} THEN R(0)
    ELSE LET c == CHOOSE x \in codes : TRUE
         IN  RAdd(RMul(holdings[c].quantity, holdings[c].price),
                  SumQtyPrice(holdings, codes \ {c}))

MarketSum(day, m) == SumQtyPrice(day.stocks[m], DOMAIN day.stocks[m])

Unpriced(day, m) == \E c \in DOMAIN day.stocks[m] : IsNone(day.stocks[m][c].price)

FullyPriced(day) == \A m \in Markets : ~Unpriced(day, m)

Valued(d) ==
    /\ last.op = "day.update_total_assets"
    /\ last.date = d
    /\ ~last.raised

\* C1: for every cash record, fully priced holdings and rate map,
\* PortfolioDay.update_total_assets sets totalAssets.USD to USStocks value +
\* AShares value / rates[CNY] + HKStocks value / rates[HKD] + cash.USD +
\* cash.HKD / rates[HKD] + cash.CNY / rates[CNY], totalAssets.CNY to
\* totalAssets.USD x rates[CNY] and totalAssets.HKD to totalAssets.USD x
\* rates[HKD], a rate absent from the map counting as 1.
C1_ValuationFormula ==
    \A d \in DOMAIN portfolio :
        (Valued(d) /\ FullyPriced(portfolio[d])) =>
            LET day == portfolio[d]
                cny == IF "CNY" \in DOMAIN last.rates THEN last.rates["CNY"] ELSE R(1)
                hkd == IF "HKD" \in DOMAIN last.rates THEN last.rates["HKD"] ELSE R(1)
                usd == RAdd(MarketSum(day, "USStocks"),
                       RAdd(RDiv(MarketSum(day, "AShares"), cny),
                       RAdd(RDiv(MarketSum(day, "HKStocks"), hkd),
                       RAdd(day.cash.USD,
                       RAdd(RDiv(day.cash.HKD, hkd), RDiv(day.cash.CNY, cny))))))
            IN  /\ day.totalAssets.USD = usd
                /\ day.totalAssets.CNY = RMul(usd, cny)
                /\ day.totalAssets.HKD = RMul(usd, hkd)

\* a fully priced day with stocks in every market and cash in every
\* currency was valued with a CNY rate and without an HKD rate
C1_Witness ==
    \E d \in DOMAIN portfolio :
        /\ Valued(d)
        /\ FullyPriced(portfolio[d])
        /\ \A m \in Markets : DOMAIN portfolio[d].stocks[m] # {}
        /\ \A c \in Currencies : ~IsZero(portfolio[d].cash[c])
        /\ "CNY" \in DOMAIN last.rates
        /\ "HKD" \notin DOMAIN last.rates
        /\ ~IsNone(portfolio[d].totalAssets.USD)

\* C2: degrade policy: when some stock of a market has no price, the whole
\* market counts 0 in the valuation, its priced stocks included, and the
\* three totals are still defined numbers.
C2_DegradeToZero ==
    \A d \in DOMAIN portfolio :
        (Valued(d) /\ ~FullyPriced(portfolio[d])) =>
            LET day == portfolio[d]
                counted(m) == IF Unpriced(day, m) THEN R(0) ELSE MarketSum(day, m)
                stocks_usd == RAdd(counted("USStocks"),
                              RAdd(RDiv(counted("AShares"), GetRate(last.rates, "CNY")),
                                   RDiv(counted("HKStocks"), GetRate(last.rates, "HKD"))))
                cash_usd == RAdd(day.cash.USD,
                            RAdd(RDiv(day.cash.HKD, GetRate(last.rates, "HKD")),
                                 RDiv(day.cash.CNY, GetRate(last.rates, "CNY"))))
            IN  /\ \A c \in Currencies : ~IsNone(day.totalAssets[c])
                /\ day.totalAssets.USD = RAdd(stocks_usd, cash_usd)

\* a market holding one priced and one unpriced stock was valued
C2_Witness ==
    \E d \in DOMAIN portfolio :
        /\ Valued(d)
        /\ \E m \in Markets :
              /\ \E c \in DOMAIN portfolio[d].stocks[m] : IsNone(portfolio[d].stocks[m][c].price)
              /\ \E c \in DOMAIN portfolio[d].stocks[m] : ~IsNone(portfolio[d].stocks[m][c].price)
        /\ ~IsNone(portfolio[d].totalAssets.USD)

(***************************************************************************)
(* Properties of the exchange-rate lookups                                  *)
(***************************************************************************)
\* C4: a lookup is answered from the cache, without contacting the provider,
\* only if the value cached for that same key was written less than one
\* hour before the lookup, whatever lookups on other keys came in between.
C4_PerKeyTTL ==
    (last.op = "get_exchange_rates" /\ last.hit) =>
        last.time - written[last.key] < TTL

\* C5: when a fresh lookup is needed and the provider fails, the value last
\* cached for the key, however old, is returned rather than the default
\* table.
C5_StaleCacheFallback ==
    (last.op = "get_exchange_rates" /\ last.failed /\ last.key \in DOMAIN cache) =>
        /\ last.data.provider # "default"
        /\ last.data.rates = cache[last.key].rates

\* C6: when the provider fails and nothing is cached for the key,
\* get_historical_exchange_rates with base USD and the default targets
\* returns exactly {USD: 1.0, CNY: 7.0, HKD: 7.8}.
C6_DefaultTable ==
    (/\ last.op = "get_historical_exchange_rates"
     /\ last.failed
     /\ last.key[2] = "USD"
     /\ last.targets = NoTargets
     /\ last.key \notin DOMAIN cache) =>
        /\ DOMAIN last.rates = {"USD", "CNY", "HKD"}
        /\ last.rates["USD"] = [n |-> 1, d |-> 1]
        /\ last.rates["CNY"] = [n |-> 7, d |-> 1]
        /\ last.rates["HKD"] = [n |-> 39, d |-> 5]

\* the provider failed on a key that was never cached and the historical
\* lookup returned a snapshot
C6_Witness ==
    /\ last.op = "get_historical_exchange_rates"
    /\ last.failed
    /\ last.key[2] = "USD"
    /\ last.targets = NoTargets
    /\ last.key \notin DOMAIN cache
    /\ ~last.raised
    /\ last.rates # EmptyMap

\* C10: get_exchange_rates and get_historical_exchange_rates never raise:
\* whatever the provider does and whether the cache is hit or missed, a
\* dictionary is returned.
C10_NeverRaises ==
    (last.op \in {"get_exchange_rates", "get_historical_exchange_rates"}) =>
        /\ ~last.raised
        /\ last.data # NoData

\* the body of the try block raised AttributeError on a payload that is no
\* dictionary of rates and the caller still got a dictionary
C10_Witness ==
    /\ last.op \in {"get_exchange_rates", "get_historical_exchange_rates"}
    /\ last.called
    /\ last.exc = "AttributeError"
    /\ last.data.provider = "default"

\* a response dictionary that carries a non-empty rate map and no failure
\* status
ValidSnapshot(data) ==
    /\ data.result = "success"
    /\ data.rates_kind = "dict"
    /\ data.rates # EmptyMap

\* C11: a provider response with an explicit failure status in its payload
\* or with an empty rate map counts as a provider failure: it is never
\* written to the cache and never returned as the snapshot of the provider.
C11_FailurePayloadNotCached ==
    /\ \A k \in DOMAIN cache : ValidSnapshot(cache[k])
    /\ (/\ last.op \in {"get_exchange_rates", "get_historical_exchange_rates"}
        /\ ~last.raised
        /\ last.data.provider = "api") => ValidSnapshot(last.data)

\* C12: every rate snapshot get_historical_exchange_rates returns for base
\* USD contains USD = 1.0, whatever the provider returned and whether the
\* value came from the provider, the cache or the default table.
C12_BaseRateIsOne ==
    (/\ last.op = "get_historical_exchange_rates"
     /\ last.key[2] = "USD"
     /\ ~last.raised) =>
        /\ "USD" \in DOMAIN last.rates
        /\ last.rates["USD"] = [n |-> 1, d |-> 1]

(***************************************************************************)
(* Properties of the price lookups                                          *)
(***************************************************************************)
\* C13: the per-market price lookups never raise: whichever source raises
\* or returns nothing, in current or historical mode, the result is a
\* number or undefined.
C13_LookupNeverRaises ==
    (last.op = "get_price") =>
        /\ ~last.raised
        /\ \/ IsNone(last.price)
           \/ last.price.d > 0

\* the daily-bar call raised, then the real-time call of the fallback raised
\* too, and the caller got undefined
C13_Witness ==
    /\ last.op = "get_price"
    /\ last.date # NoDate
    /\ last.asked = <<"hist", "spot">>
    /\ last.exc = "Exception"
    /\ IsNone(last.price)
    /\ ~last.raised

\* C14: in historical mode, whenever the daily-bar source raises or returns
\* no bars, the lookup goes on to ask the current-price source for the code
\* and returns its price when that source has the code.
C14_HistoricalFallsBack ==
    (/\ last.op = "get_price"
     /\ last.date # NoDate
     /\ last.sources.hist \in {"raise", "empty"}) =>
        /\ \E i \in DOMAIN last.asked : last.asked[i] = "spot"
        /\ last.sources.spot = "rows" => last.price = QuoteOf(last.code)

\* C15: in historical mode the daily-bar source is asked for a window
\* determined by the requested date, so that two lookups of the same code
\* with different dates ask for different windows, and the result is the
\* close of the first bar of that window.
C15_WindowFollowsDate ==
    [][(/\ last.op = "get_price" /\ last'.op = "get_price"
        /\ last.market = last'.market /\ last.code = last'.code
        /\ last.date # NoDate /\ last'.date # NoDate
        /\ last.date # last'.date) =>
           /\ last.window # last'.window
           /\ last'.sources.hist = "rows" => last'.price = Head(BarsOf(last'.code))]_vars

\* the price a lookup of date_str returns for a code when its sources answer
ResolvedPrice(code, date_str) ==
    IF date_str = NoDate THEN QuoteOf(code) ELSE Head(BarsOf(code))

\* C16: update_stock_prices resolves each stock independently: for every
\* pattern of per-stock lookup failure, each stock whose own lookup succeeds
\* ends with its own resolved price, no stock is skipped because another
\* stock failed, and the call does not raise.
C16_StocksIndependent ==
    (last.op = "update_stock_prices" /\ last.date \in DOMAIN portfolio) =>
        /\ ~last.raised
        /\ \A hc \in Held(portfolio[last.date]) :
              LET stock == portfolio[last.date].stocks[hc[1]][hc[2]]
              IN  IF hc \in last.quoted
                  THEN stock.price = ResolvedPrice(hc[2], last.key[1])
                  ELSE IsNone(stock.price)

\* a refresh in which the lookup of one A-share failed and the lookups of
\* the other A-share and of a stock of another market succeeded
C16_Witness ==
    /\ last.op = "update_stock_prices"
    /\ last.date \in DOMAIN portfolio
    /\ \E a, b \in DOMAIN portfolio[last.date].stocks["AShares"] :
          /\ <<"AShares", a>> \notin last.quoted
          /\ <<"AShares", b>> \in last.quoted
          /\ ~IsNone(portfolio[last.date].stocks["AShares"][b].price)
    /\ \E hc \in last.quoted : hc[1] # "AShares"

\* C30: update_stock_prices overwrites: after it, the price of every stock
\* of the day is the result of this refresh's lookup, whatever the price
\* was before; a stock whose lookup failed ends with no price even if it
\* had one.
C30_PricesOverwritten ==
    [][(/\ last'.op = "update_stock_prices"
        /\ nops' = nops + 1
        /\ last'.date \in DOMAIN portfolio) =>
          \A m \in Markets :
              /\ DOMAIN portfolio'[last'.date].stocks[m] =
                    DOMAIN portfolio[last'.date].stocks[m]
              /\ \A c \in DOMAIN portfolio[last'.date].stocks[m] :
                    LET new == portfolio'[last'.date].stocks[m][c].price
                    IN  /\ <<m, c>> \in last'.looked
                        /\ <<m, c>> \in last'.quoted =>
                              new = ResolvedPrice(c, last'.key[1])
                        /\ <<m, c>> \notin last'.quoted => IsNone(new)]_vars

\* a refresh after which a stock that had a price has none, its lookup
\* having failed, while the lookup of another stock that had a price succeeded
C30_Witness ==
    /\ last.op = "update_stock_prices"
    /\ last.date \in DOMAIN portfolio
    /\ \E hc \in last.had \ last.quoted :
          IsNone(portfolio[last.date].stocks[hc[1]][hc[2]].price)
    /\ \E hc \in last.had \cap last.quoted : TRUE

(***************************************************************************)
(* Properties of the manager                                                *)
(***************************************************************************)
\* C3: from an empty portfolio, after any sequence of manager operations,
\* valuation passes that raise included, the three totals of every day are
\* either all undefined or all defined.
C3_TotalsAllOrNone ==
    \A d \in DOMAIN portfolio :
        \/ \A c \in Currencies : IsNone(portfolio[d].totalAssets[c])
        \/ \A c \in Currencies : ~IsNone(portfolio[d].totalAssets[c])

\* a valuation pass raised on a day that an earlier pass had valued
C3_Witness ==
    /\ last.op = "update_total_assets"
    /\ last.raised
    /\ last.date \in DOMAIN portfolio
    /\ \A c \in Currencies : ~IsNone(portfolio[last.date].totalAssets[c])

\* the rate map of the dictionary a current-rate lookup returned
RatesOf(data) == IF data.rates_kind = "dict" THEN data.rates ELSE EmptyMap

\* C7: update_total_assets without a date values the latest day with the
\* CNY and HKD rates of the current-rate lookup.
C7_CurrentRatesUsed ==
    (/\ last.op = "update_total_assets"
     /\ last.key[1] = NoDate
     /\ last.date \in DOMAIN portfolio
     /\ ~ValuationRaises(RatesOf(last.current))) =>
        /\ last.date = latest_day(portfolio)
        /\ portfolio[last.date].totalAssets =
              update_total_assets(portfolio[last.date], RatesOf(last.current)).totalAssets

\* C8: when the historical lookup of the requested date yields an empty
\* map, update_total_assets(date) values the day with the rates of the
\* current-rate path, never with an empty snapshot.
C8_FallbackToCurrentRates ==
    (/\ last.op = "update_total_assets"
     /\ last.key[1] # NoDate
     /\ last.fellback
     /\ last.date \in DOMAIN portfolio
     /\ ~ValuationRaises(RatesOf(last.current))) =>
        /\ RatesOf(last.current) # EmptyMap
        /\ portfolio[last.date].totalAssets =
              update_total_assets(portfolio[last.date], RatesOf(last.current)).totalAssets

\* C9: after every successful valuation refresh the day records the rate
\* snapshot used and its totals are consistent with the recorded rates.
C9_SnapshotRecorded ==
    (/\ last.op = "update_total_assets"
     /\ last.date \in DOMAIN portfolio
     /\ ~last.raised) =>
        LET day == portfolio[last.date]
        IN  /\ "exchangeRates" \in DOMAIN day
            /\ day.totalAssets.CNY = RMul(day.totalAssets.USD, day.exchangeRates["CNY"])
            /\ day.totalAssets.HKD = RMul(day.totalAssets.USD, day.exchangeRates["HKD"])

\* a day with zero cash, no stocks and undefined totals
FreshDay(day) ==
    /\ \A c \in Currencies : day.cash[c] = [n |-> 0, d |-> 1]
    /\ \A m \in Markets : DOMAIN day.stocks[m] = {}
    /\ \A c \in Currencies : IsNone(day.totalAssets[c])

\* the days other than date_str are the same before and after the step
OtherDaysKept(date_str) ==
    /\ DOMAIN portfolio' \ {date_str} = DOMAIN portfolio \ {date_str}
    /\ \A d \in DOMAIN portfolio \ {date_str} : portfolio'[d] = portfolio[d]

\* C21: create_portfolio_day is idempotent: on a date that has a day it
\* changes none of its cash, stocks or totals; on an absent date it inserts
\* a day with zero cash, no stocks and undefined totals.
C21_CreateIdempotent ==
    [][(last'.op = "create_portfolio_day") =>
          /\ OtherDaysKept(last'.date)
          /\ last'.date \in DOMAIN portfolio'
          /\ IF last'.date \in DOMAIN portfolio
             THEN portfolio'[last'.date] = portfolio[last'.date]
             ELSE FreshDay(portfolio'[last'.date])]_vars

\* create_portfolio_day was called on a day that holds cash or a stock
C21_Witness ==
    /\ last.op = "create_portfolio_day"
    /\ last.date \in DOMAIN portfolio
    /\ ~FreshDay(portfolio[last.date])

\* C22: update_cash with a currency outside {USD, HKD, CNY} fails with the
\* unsupported-currency error and leaves the three cash balances of the day
\* as they were (zero when the day did not exist before the call).
C22_UnsupportedCurrency ==
    [][(last'.op = "update_cash" /\ last'.currency \notin {"USD", "HKD", "CNY"}) =>
          /\ last'.raised
          /\ last'.exc = "ValueError"
          /\ \A d \in DOMAIN portfolio' :
                \A c \in Currencies :
                    portfolio'[d].cash[c] =
                        IF d \in DOMAIN portfolio THEN portfolio[d].cash[c]
                        ELSE [n |-> 0, d |-> 1]]_vars

\* update_cash raised on a day that holds a balance
C22_Witness ==
    /\ last.op = "update_cash"
    /\ last.raised
    /\ last.date \in DOMAIN portfolio
    /\ \E c \in Currencies : ~IsZero(portfolio[last.date].cash[c])

\* C23: update_cash with a supported currency sets exactly that balance to
\* the amount given (overwrite) and leaves the other balances, the stocks,
\* the totals and every other day unchanged.
C23_CashOverwrite ==
    [][(last'.op = "update_cash" /\ last'.currency \in {"USD", "HKD", "CNY"}) =>
          LET date == last'.date
              after == portfolio'[date]
          IN  /\ ~last'.raised
              /\ OtherDaysKept(date)
              /\ date \in DOMAIN portfolio'
              /\ after.cash[last'.currency] = last'.amount
              /\ IF date \in DOMAIN portfolio
                 THEN /\ \A c \in Currencies \ {last'.currency} :
                            after.cash[c] = portfolio[date].cash[c]
                      /\ after.stocks = portfolio[date].stocks
                      /\ after.totalAssets = portfolio[date].totalAssets
                 ELSE FreshDay([after EXCEPT !.cash[last'.currency] =
                                                [n |-> 0, d |-> 1]])]_vars

\* update_cash set one balance of a day whose other balance was already set
C23_Witness ==
    /\ last.op = "update_cash"
    /\ ~last.raised
    /\ last.date \in DOMAIN portfolio
    /\ portfolio[last.date].cash[last.currency] = last.amount
    /\ \E c \in Currencies \ {last.currency} :
          ~IsZero(portfolio[last.date].cash[c])

\* the (date, market, code) triples under which the portfolio pf holds a record
Holdings(pf) ==
    {<<d, m, c>> \in (DOMAIN pf) \X Markets \X {"00700", "09988"} :
        c \in DOMAIN pf[d].stocks[m]}

\* C24: add_stock replaces and never duplicates: each record sits under its
\* own code, the record of the (date, market, code) added is the stock of
\* this call (quantity, cost and price), and the records under every other
\* date, market or code are the ones held before.
C24_UpsertReplaces ==
    [][(last'.op = "add_stock" /\ ~last'.raised) =>
          LET t == <<last'.date, last'.market, last'.stock.code>>
          IN  /\ Holdings(portfolio') = Holdings(portfolio) \cup {t}
              /\ \A m \in Markets, d \in DOMAIN portfolio' :
                    DOMAIN portfolio'[d].stocks[m] \subseteq {"00700", "09988"}
              /\ \A h \in Holdings(portfolio') :
                    /\ portfolio'[h[1]].stocks[h[2]][h[3]].code = h[3]
                    /\ portfolio'[h[1]].stocks[h[2]][h[3]] =
                          IF h = t THEN last'.stock
                          ELSE portfolio[h[1]].stocks[h[2]][h[3]]]_vars

\* add_stock replaced a record whose quantity, cost and price were different
C24_Witness ==
    /\ last.op = "add_stock"
    /\ last.replaced
    /\ last.stock.quantity = [n |-> 20, d |-> 1]
    /\ portfolio[last.date].stocks[last.market][last.stock.code] = last.stock

\* C25: update_stock_prices(date) and update_total_assets(date) called with
\* an explicit date that has no day raise nothing and leave the portfolio,
\* its set of dates included, unchanged.
C25_AbsentDateUntouched ==
    [][(/\ last'.op \in {"update_stock_prices", "update_total_assets"}
        /\ last'.key[1] # NoDate
        /\ last'.key[1] \notin DOMAIN portfolio) =>
          /\ ~last'.raised
          /\ portfolio' = portfolio]_vars

\* C26: with the date omitted and an empty portfolio, update_stock_prices
\* and update_total_assets return without raising, look up no price, make
\* no rate lookup and leave the portfolio empty.
C26_EmptyPortfolioNoOp ==
    [][(/\ last'.op \in {"update_stock_prices", "update_total_assets"}
        /\ last'.key[1] = NoDate
        /\ DOMAIN portfolio = {}) =>
          /\ ~last'.raised
          /\ ~last'.called
          /\ last'.looked = {}
          /\ cache' = cache
          /\ written' = written
          /\ last_update' = last_update
          /\ DOMAIN portfolio' = {}]_vars

\* update_total_assets() ran on a portfolio that holds no day
C26_Witness ==
    /\ last.op = "update_total_assets"
    /\ last.key[1] = NoDate
    /\ DOMAIN portfolio = {}
    /\ nops > 0

\* C27: the value get_portfolio_summary reports for a market is the market
\* aggregate of the valuation: the sum of quantity x price over the stocks
\* of the market, and 0 (not undefined) when one of them has no price.
C27_SummaryMarketValue ==
    (last.op = "get_portfolio_summary" /\ last.summary.error = "none") =>
        \A m \in Markets :
            last.summary.stocks[m].value =
                IF Unpriced(portfolio[last.date], m) THEN [n |-> 0, d |-> 1]
                ELSE MarketSum(portfolio[last.date], m)

\* C28: the valuation is idempotent: when update_total_assets runs twice in
\* a row for the same date with the same rates, on unchanged cash, holdings
\* and prices, the second call writes the totals the first one wrote,
\* whether its rates came from the cache or from the provider.
C28_ValuationIdempotent ==
    [][(/\ last.op = "update_total_assets"
        /\ last'.op = "update_total_assets"
        /\ nops' = nops + 1
        /\ last'.key = last.key
        /\ last'.date = last.date
        /\ last'.rates = last.rates
        /\ ~last.raised
        /\ ~last'.raised) =>
          /\ portfolio'[last'.date].totalAssets = portfolio[last.date].totalAssets
          /\ \A c \in Currencies : ~IsNone(portfolio'[last'.date].totalAssets[c])
          /\ portfolio'[last'.date].cash = portfolio[last.date].cash
          /\ portfolio'[last'.date].stocks = portfolio[last.date].stocks]_vars

\* a second valuation with the same rates, obtained from the provider again
C28_Witness ==
    /\ last.op = "update_total_assets"
    /\ last.repeat
    /\ last.called
    /\ ~IsZero(portfolio[last.date].totalAssets["USD"])

\* C29: the totals change only in a valuation: create_portfolio_day,
\* update_cash, add_stock, update_stock_prices and get_portfolio_summary
\* leave the totalAssets of every day as they were, and a day they create
\* has its three totals undefined.
C29_TotalsOnlyByValuation ==
    [][(last'.op \in {"create_portfolio_day", "update_cash", "add_stock",
                      "update_stock_prices", "get_portfolio_summary"}
        /\ nops' = nops + 1) =>
          /\ DOMAIN portfolio \subseteq DOMAIN portfolio'
          /\ \A d \in DOMAIN portfolio' :
                IF d \in DOMAIN portfolio
                THEN portfolio'[d].totalAssets = portfolio[d].totalAssets
                ELSE \A c \in Currencies : IsNone(portfolio'[d].totalAssets[c])]_vars

\* one of these operations ran on a day that a valuation had given totals
C29_Witness ==
    /\ last.op \in {"create_portfolio_day", "update_cash", "add_stock",
                    "update_stock_prices", "get_portfolio_summary"}
    /\ ~last.raised
    /\ last.date \in DOMAIN portfolio
    /\ \A c \in Currencies : ~IsNone(portfolio[last.date].totalAssets[c])

\* C31: a validation failure changes nothing: when update_cash raises on an
\* unsupported currency or add_stock on an unknown market, the portfolio is
\* what it was before the call, its set of dates included, also when the
\* date had no day.
C31_ValidationFailureNoChange ==
    [][(/\ last'.op \in {"update_cash", "add_stock"}
        /\ nops' = nops + 1
        /\ last'.raised) =>
          portfolio' = portfolio]_vars

\* C32: a failed provider call leaves the rate cache untouched: when
\* get_exchange_rates falls back because the provider raised or answered a
\* non-success status, the cached entries and the last-update time are what
\* they were, and the default table is never an entry of the cache.
C32_FailureKeepsCache ==
    [][(/\ last'.op = "get_exchange_rates"
        /\ last'.failed) =>
          /\ ~last'.raised
          /\ last'.data.provider = "default"
          /\ cache' = cache
          /\ last_update' = last_update
          /\ written' = written
          /\ \A k \in DOMAIN cache' : cache'[k].provider # "default"]_vars

\* the provider failed on a key whose cached entry had expired: the lookup
\* returned the default table and the entry is still the provider's
C32_Witness ==
    /\ last.op = "get_exchange_rates"
    /\ last.failed
    /\ last.data.provider = "default"
    /\ last.key \in DOMAIN cache
    /\ cache[last.key].provider = "api"
    /\ last.time - written[last.key] >= TTL

\* C33: no duplicate upstream call: once a lookup of a key succeeded at the
\* provider, a lookup of that key made less than one hour after it contacts
\* no provider and returns the rates that lookup cached, whatever lookups
\* of other keys happened in between; a lookup changes the entry of no
\* other key.
C33_NoDuplicateCall ==
    [][(last'.op = "get_exchange_rates" /\ now' = now) =>
          /\ \A k \in DOMAIN cache \ {last'.key} :
                k \in DOMAIN cache' /\ cache'[k] = cache[k]
          /\ (last'.key \in DOMAIN written /\ now - written[last'.key] < 60) =>
                /\ ~last'.called
                /\ ~last'.raised
                /\ last'.data.rates = cache[last'.key].rates
                /\ cache'[last'.key].rates = cache[last'.key].rates
                /\ written'[last'.key] = written[last'.key]]_vars

\* a key served from the cache after the provider had answered a lookup of
\* another key in between
C33_Witness ==
    /\ last.op = "get_exchange_rates"
    /\ ~last.called
    /\ last.key \in DOMAIN written
    /\ written[last.key] < last.time
    /\ last.time - written[last.key] < 60
    /\ \E k \in DOMAIN written \ {last.key} : written[k] > written[last.key]
    /\ last.data.rates = cache[last.key].rates

(***************************************************************************)
(* Properties of the batch update                                           *)
(***************************************************************************)
\* the days of the portfolio inside the range the last batch was called with
Selected ==
    {d \in DOMAIN portfolio :
        /\ last.range[1] = NoDate \/ d >= last.range[1]
        /\ last.range[2] = NoDate \/ d <= last.range[2]}

\* the dates of the steps of one kind the last batch took, in order
EventDates(kind) ==
    LET sel == SelectSeq(last.events, LAMBDA e : e[1] = kind)
    IN  [i \in DOMAIN sel |-> sel[i][2]]

\* the steps the last batch took for date d, in order
EventsOn(d) ==
    LET sel == SelectSeq(last.events, LAMBDA e : e[2] = d)
    IN  [i \in DOMAIN sel |-> sel[i][1]]

\* the handler of the loop ran for date d
Failed(d) == \E i \in DOMAIN last.events : last.events[i] = <<"error", d>>

C18_SavedExactlyOnce ==
    (last.op = "update_all_dates") =>
        /\ Len(EventDates("save")) = 1
        /\ last.events[Len(last.events)] = <<"save", NoDate>>
        /\ file.state = "written"
        /\ file.content = portfolio

\* C19: update_all_dates processes exactly the days whose date lies in
\* [start, end] (an omitted bound is unbounded), each once, in strictly
\* ascending order, and returns a result map with exactly those dates as
\* keys.
C19_SelectedAscending ==
    (last.op = "update_all_dates") =>
        LET done == EventDates("prices")
        IN  /\ Len(done) = Cardinality(Selected)
            /\ {done[i] : i \in DOMAIN done} = Selected
            /\ \A i, j \in DOMAIN done : i < j => done[i] < done[j]
            /\ ~last.raised
            /\ DOMAIN last.results = Selected

\* the steps of a date: the price refresh, the pause when one is due, the
\* valuation, the handler when it raised, the result; or, had the price
\* refresh raised, the handler and the result only
StepsOf(pauses) ==
    {<<"prices">> \o (IF pauses THEN <<"sleep">> ELSE <<>>) \o <<"valuation">> \o h
        \o <<"result">> : h \in {<<>>, <<"error">>}}
        \cup {<<"prices", "error", "result">>}

\* C20: each date is handled in the order price refresh, pause, valuation,
\* result recorded; with a positive delay and n selected dates exactly n-1
\* pauses occur, none for the last date, and a date whose price refresh
\* raised gets neither a pause nor a valuation.
C20_StepOrder ==
    (last.op = "update_all_dates") =>
        /\ \A d \in Selected :
              EventsOn(d) \in StepsOf(last.delay > 0 /\ \E e \in Selected : e > d)
        /\ \A i, j, k \in DOMAIN last.events :
              (i < j /\ j < k /\ last.events[i][2] = last.events[k][2]) =>
                  last.events[j][2] = last.events[i][2]
        /\ Len(EventDates("sleep")) =
              IF last.delay > 0 /\ Selected # {} THEN Cardinality(Selected) - 1 ELSE 0

\* a batch over two dates or more with a positive delay in which the
\* valuation of a date raised
C20_Witness ==
    /\ last.op = "update_all_dates"
    /\ last.delay > 0
    /\ Cardinality(Selected) >= 2
    /\ Len(EventDates("sleep")) = Cardinality(Selected) - 1
    /\ \E d \in Selected : Failed(d)

\* the date d lies outside the range the batch of this step is called with
OutsideRange(d) ==
    \/ last'.range[1] # NoDate /\ d < last'.range[1]
    \/ last'.range[2] # NoDate /\ d > last'.range[2]

\* C34: update_all_dates touches only the selected dates: every day whose
\* date lies outside [start, end] keeps its cash, stocks, prices and totals,
\* and the batch adds no day to the portfolio and removes none.
C34_OnlySelectedTouched ==
    [][(last'.op = "update_all_dates" /\ nops' = nops + 1) =>
          /\ DOMAIN portfolio' = DOMAIN portfolio
          /\ \A d \in DOMAIN portfolio :
                OutsideRange(d) => portfolio'[d] = portfolio[d]]_vars

\* a batch over part of the portfolio: a day outside the range is as it was
\* loaded while a day inside it has been valued
C34_Witness ==
    /\ last.op = "update_all_dates"
    /\ nops = 1
    /\ \E d \in DOMAIN portfolio \ Selected : portfolio[d] = BatchDay
    /\ \E d \in Selected : \A c \in Currencies : ~IsNone(portfolio[d].totalAssets[c])

====
